---- MODULE Spec2Model ----
(***************************************************************************)
(* A model of server.py, the music recommender backend: the user and       *)
(* saved-track collections of the document store with the handlers that    *)
(* read and write them, and the handlers that call the upstream catalog    *)
(* (token fetch, then search / recommendations / genre seeds).             *)
(*                                                                         *)
(* A Python str is modelled as the sequence of its characters, a list as a *)
(* sequence, a dict as a function from its keys, None as the string        *)
(* "None" where a str is expected, and the result of find_one as a         *)
(* sequence holding the document found, or empty when there is none.       *)
(***************************************************************************)
EXTENDS Integers, Sequences, FiniteSets, TLC

VARIABLES
    users,          \* db.users, in insertion order
    saved_tracks,   \* db.saved_tracks, in insertion order
    pending,        \* save_track requests suspended between find_one and insert_one
    response,       \* the response of the handler that finished last
    pc,             \* position of the request that calls upstream
    req,            \* that request's endpoint and local variables
    calls           \* the upstream calls that request has issued, in order

vars == <<users, saved_tracks, pending, response, pc, req, calls>>

store_vars == <<users, saved_tracks, pending>>
upstream_vars == <<pc, req, calls>>

(***************************************************************************)
(* Bounds of the model.                                                    *)
(***************************************************************************)
MaxUsers == 2       \* users created, and the user ids requests name
MaxSaveUsers == 1   \* user ids the saved-track requests name (never checked against users)
MaxRows == 2        \* saved-track rows stored or about to be inserted
MaxItems == 4       \* items in one upstream track list
MaxGenres == 4      \* favorite genres a stored user has
MaxArtists == 3     \* favorite artists a stored user has

(***************************************************************************)
(* Python values.                                                          *)
(***************************************************************************)
None == "None"

\* the sequences over S of length at most n
Seqs(S, n) == UNION {[1..k -> S] : k \in 0..n}

\* dict.get(key, default)
DictGet(d, key, default) == IF key \in DOMAIN d THEN d[key] ELSE default

Min(a, b) == IF a < b THEN a ELSE b

\* s[:n]
Prefix(s, n) == SubSeq(s, 1, Min(n, Len(s)))

\* str as its characters
S_pop == <<"p", "o", "p">>
S_rock == <<"r", "o", "c", "k">>
S_indie == <<"i", "n", "d", "i", "e">>
S_a1 == <<"a", "1">>
S_a2 == <<"a", "2">>

(***************************************************************************)
(* The document store: one collection is a sequence of documents.          *)
(***************************************************************************)
\* a filter {field: value, ...} matches the documents equal to it on its fields
Matches(doc, filter) == \A k \in DOMAIN filter : doc[k] = filter[k]

\* index of the first document the filter matches, 0 when none does
FirstMatch(coll, filter) ==
    IF \E i \in DOMAIN coll : Matches(coll[i], filter)
    THEN CHOOSE i \in DOMAIN coll :
            /\ Matches(coll[i], filter)
            /\ \A j \in DOMAIN coll : Matches(coll[j], filter) => i <= j
    ELSE 0

find_one(coll, filter) ==
    LET i == FirstMatch(coll, filter) IN IF i = 0 THEN <<>> ELSE <<coll[i]>>

insert_one(coll, doc) == Append(coll, doc)

\* delete_one removes the first matching document only
delete_one(coll, filter) ==
    LET i == FirstMatch(coll, filter) IN
    IF i = 0
    THEN [coll |-> coll, deleted_count |-> 0]
    ELSE [coll |-> SubSeq(coll, 1, i - 1) \o SubSeq(coll, i + 1, Len(coll)),
          deleted_count |-> 1]

\* $set taken for a merge: a list field is extended, not replaced
SetFieldsMerging(doc, update_data) ==
    [k \in DOMAIN doc |-> IF k \in DOMAIN update_data THEN doc[k] \o update_data[k] ELSE doc[k]]

\* {"$set": update_data} on one document
SetFields(doc, update_data) ==
    [k \in DOMAIN doc |-> IF k \in DOMAIN update_data THEN update_data[k] ELSE doc[k]]

\* update_one with upsert=True: a filter that matches nothing inserts a document
update_one_upsert(coll, filter, update_data) ==
    LET i == FirstMatch(coll, filter) IN
    IF i = 0
    THEN [coll |-> Append(coll, update_data), matched_count |-> 0]
    ELSE [coll |-> [coll EXCEPT ![i] = SetFields(coll[i], update_data)],
          matched_count |-> 1]

\* update_one changes the first matching document only
update_one(coll, filter, update_data) ==
    LET i == FirstMatch(coll, filter) IN
    IF i = 0
    THEN [coll |-> coll, matched_count |-> 0]
    ELSE [coll |-> [coll EXCEPT ![i] = SetFields(coll[i], update_data)],
          matched_count |-> 1]

\* the documents of coll that satisfy keep (a set of indices), in order
Select(coll, keep) ==
    LET F[i \in 0..Len(coll)] ==
            IF i = 0 THEN <<>>
            ELSE IF i \in keep THEN Append(F[i - 1], coll[i]) ELSE F[i - 1]
    IN F[Len(coll)]

\* find(filter).to_list(length)
find_to_list(coll, filter, length) ==
    Prefix(Select(coll, {i \in DOMAIN coll : Matches(coll[i], filter)}), length)

\* the limit get_saved_tracks passes to to_list
ListCap == 1000

(***************************************************************************)
(* Models (pydantic) and the values their default factories draw.          *)
(***************************************************************************)
\* uuid.uuid4(): a value no live document of the collection carries
Uuid4(used) == CHOOSE n \in 1..(Cardinality(used) + 1) : n \notin used

\* datetime.utcnow(): the handlers store the clock's reading and never read it back
utcnow == "T0"

User(id, user_data, now) ==
    [id |-> id,
     spotify_id |-> DictGet(user_data, "spotify_id", <<>>),
     display_name |-> DictGet(user_data, "display_name", <<>>),
     email |-> DictGet(user_data, "email", None),
     favorite_genres |-> <<>>,
     favorite_artists |-> <<>>,
     created_at |-> now]

SavedTrack(id, user_id, track_data, now) ==
    [id |-> id,
     user_id |-> user_id,
     track_id |-> track_data["track_id"],
     track_name |-> track_data["track_name"],
     artists |-> track_data["artists"],
     saved_at |-> now]

\* raise HTTPException(status_code, detail), and a handler's normal return
HTTPException(op, status_code, detail) ==
    [op |-> op, status |-> status_code, detail |-> detail, body |-> <<>>]

\* no handler has answered yet
NoResponse == [op |-> "none", status |-> 0, detail |-> "none", body |-> <<>>]

\* a handler's normal return: 200 with the returned value as the body
Return200(op, body) == [op |-> op, status |-> 200, detail |-> "OK", body |-> body]

Ok(op, message) == Return200(op, [message |-> message])

(***************************************************************************)
(* Request inputs.                                                         *)
(***************************************************************************)
UserIdArgs == 1..MaxUsers

SaveUserArgs == 1..MaxSaveUsers

UserPayloads ==
    { [spotify_id |-> <<"s", "1">>, display_name |-> <<"A">>] }

PrefPayloads ==
    { [genres |-> <<S_pop>>, artists |-> <<>>],
      [genres |-> <<S_rock, S_pop>>, artists |-> <<S_a1>>] }

TrackPayloads ==
    { [track_id |-> "t1", track_name |-> "One", artists |-> <<"x">>],
      [track_id |-> "t2", track_name |-> "Two", artists |-> <<"y">>] }

TrackIdArgs == {p.track_id : p \in TrackPayloads}

UserIds(coll) == {coll[i].id : i \in DOMAIN coll}

RowIds == {saved_tracks[i].id : i \in DOMAIN saved_tracks} \cup {p.id : p \in pending}

\* the rows of one (user id, track id) pair
PairRows(coll, user_id, track_id) ==
    {i \in DOMAIN coll : coll[i].user_id = user_id /\ coll[i].track_id = track_id}

(***************************************************************************)
(* Handlers of the user collection.                                        *)
(***************************************************************************)
create_user(user_data) ==
    /\ Len(users) < MaxUsers
    /\ LET user == User(Uuid4(UserIds(users)), user_data, utcnow) IN
        /\ users' = insert_one(users, user)
        /\ response' = Return200("create_user", user)
    /\ UNCHANGED <<saved_tracks, pending, upstream_vars>>

get_user(user_id) ==
    /\ LET user == find_one(users, [id |-> user_id]) IN
        response' = IF user = <<>>
                    THEN HTTPException("get_user", 404, "User not found")
                    ELSE Return200("get_user", user[1])
    /\ UNCHANGED <<store_vars, upstream_vars>>

update_user_preferences(user_id, preferences) ==
    /\ LET update_data == [favorite_genres |-> preferences.genres,
                           favorite_artists |-> preferences.artists]
           result == update_one(users, [id |-> user_id], update_data)
       IN
        /\ users' = result.coll
        /\ response' = IF result.matched_count = 0
                       THEN HTTPException("update_user_preferences", 404, "User not found")
                       ELSE Ok("update_user_preferences", "Preferences updated successfully")
    /\ UNCHANGED <<saved_tracks, pending, upstream_vars>>

(***************************************************************************)
(* Handlers of the saved-track collection.  save_track awaits find_one and *)
(* then insert_one: other requests run between the two.                    *)
(***************************************************************************)
\* the filter naming a field the rows do not compare on: the track's name
PairFilterWrongField(user_id, track_id) == [user_id |-> user_id, track_name |-> track_id]

\* the filter {"user_id": user_id, "track_id": track_id}
PairFilter(user_id, track_id) == [user_id |-> user_id, track_id |-> track_id]

\* save_track up to its second await: build the row, look for the pair
save_track_find(user_id, track_data) ==
    /\ LET saved_track == SavedTrack(Uuid4(RowIds), user_id, track_data, utcnow)
           existing == find_one(saved_tracks, PairFilter(user_id, track_data["track_id"]))
       IN
        IF existing # <<>>
        THEN /\ response' = HTTPException("save_track", 400, "Track already saved")
             /\ UNCHANGED pending
        ELSE /\ Len(saved_tracks) + Cardinality(pending) < MaxRows
             /\ pending' = pending \cup {saved_track}
             /\ UNCHANGED response
    /\ UNCHANGED <<users, saved_tracks, upstream_vars>>

\* save_track from its second await on: insert the row built before the check
save_track_insert(saved_track) ==
    /\ saved_track \in pending
    /\ saved_tracks' = insert_one(saved_tracks, saved_track)
    /\ pending' = pending \ {saved_track}
    /\ response' = Ok("save_track", "Track saved successfully")
    /\ UNCHANGED <<users, upstream_vars>>

\* save_track run to its end with no other request in between
save_track(user_id, track_data) ==
    /\ pending = {}
    /\ LET saved_track == SavedTrack(Uuid4(RowIds), user_id, track_data, utcnow)
           existing == find_one(saved_tracks, PairFilter(user_id, track_data["track_id"]))
       IN
        IF existing # <<>>
        THEN /\ response' = HTTPException("save_track", 400, "Track already saved")
             /\ UNCHANGED saved_tracks
        ELSE /\ Len(saved_tracks) < MaxRows
             /\ saved_tracks' = insert_one(saved_tracks, saved_track)
             /\ response' = Ok("save_track", "Track saved successfully")
    /\ UNCHANGED <<users, pending, upstream_vars>>

get_saved_tracks(user_id) ==
    /\ LET rows == find_to_list(saved_tracks, [user_id |-> user_id], ListCap) IN
        response' = Return200("get_saved_tracks", [saved_tracks |-> rows])
    /\ UNCHANGED <<store_vars, upstream_vars>>

remove_saved_track(user_id, track_id) ==
    /\ LET result == delete_one(saved_tracks, PairFilter(user_id, track_id)) IN
        /\ saved_tracks' = result.coll
        /\ response' = IF result.deleted_count = 0
                       THEN HTTPException("remove_saved_track", 404, "Saved track not found")
                       ELSE Ok("remove_saved_track", "Track removed successfully")
    /\ UNCHANGED <<users, pending, upstream_vars>>

(***************************************************************************)
(* The upstream service as the handlers see it: one HTTP exchange either   *)
(* fails in transport or answers a status and a body; the body is JSON or  *)
(* it is not.                                                              *)
(***************************************************************************)
NotJson == [json |-> FALSE, value |-> <<>>]

Json(value) == [json |-> TRUE, value |-> value]

TransportError == [kind |-> "error", status_code |-> 0, body |-> NotJson]

Http(status_code, body) == [kind |-> "http", status_code |-> status_code, body |-> body]

\* the outcome of a call: it returns a value or an exception escapes it
Returns(value) == [raised |-> FALSE, exc |-> "", value |-> value]

Raises(exc, nothing) == [raised |-> TRUE, exc |-> exc, value |-> nothing]

\* get_spotify_token, from the reply its POST receives
get_spotify_token(reply) ==
    IF reply.kind = "error" THEN Raises("httpx.TransportError", None)
    ELSE IF reply.status_code = 200
    THEN IF ~reply.body.json THEN Raises("JSONDecodeError", None)
         ELSE IF "access_token" \notin DOMAIN reply.body.value THEN Raises("KeyError", None)
         ELSE Returns(reply.body.value["access_token"])
    ELSE Returns(None)

\* 'not token' tested as 'token is None': the empty string passes for a token
NotTokenIsNone(token) == token = None

\* not token
NotToken(token) == token = None \/ token = ""

\* search_spotify_tracks and get_spotify_recommendations, from the reply their
\* GET receives: the parsed body in a one-element sequence, empty for None
catalog_json(reply) ==
    IF reply.kind = "error" THEN Raises("httpx.TransportError", <<>>)
    ELSE IF reply.status_code = 200
    THEN IF ~reply.body.json THEN Raises("JSONDecodeError", <<>>)
         ELSE Returns(<<reply.body.value>>)
    ELSE Returns(<<>>)

\* not results: None, or an empty JSON object
NotResults(results) == results = <<>> \/ DOMAIN results[1] = {}

(***************************************************************************)
(* format_track.                                                           *)
(***************************************************************************)
\* the subscripts format_track takes without a default
HasRequiredFields(track_data) ==
    /\ {"id", "name", "artists", "album", "external_urls", "duration_ms"}
            \subseteq DOMAIN track_data
    /\ \A i \in DOMAIN track_data["artists"] : "name" \in DOMAIN track_data["artists"][i]
    /\ {"name", "images"} \subseteq DOMAIN track_data["album"]
    /\ \A i \in DOMAIN track_data["album"]["images"] :
            i = 1 => "url" \in DOMAIN track_data["album"]["images"][i]
    /\ "spotify" \in DOMAIN track_data["external_urls"]

format_track(track_data) ==
    IF ~HasRequiredFields(track_data) THEN Raises("KeyError", <<>>)
    ELSE Returns(
        [id |-> track_data["id"],
         name |-> track_data["name"],
         artists |-> [i \in DOMAIN track_data["artists"] |-> track_data["artists"][i]["name"]],
         album |-> track_data["album"]["name"],
         preview_url |-> DictGet(track_data, "preview_url", None),
         image_url |-> IF track_data["album"]["images"] # <<>>
                       THEN track_data["album"]["images"][1]["url"]
                       ELSE None,
         external_url |-> track_data["external_urls"]["spotify"],
         duration_ms |-> track_data["duration_ms"],
         popularity |-> DictGet(track_data, "popularity", 0)])

\* [format_track(track) for track in items]: the first exception ends it
format_tracks(items) ==
    IF \E i \in DOMAIN items : format_track(items[i]).raised
    THEN Raises("KeyError", <<>>)
    ELSE Returns([i \in DOMAIN items |-> format_track(items[i]).value])

\* tracks.sort(key=popularity) followed by tracks.reverse(): descending, but
\* tracks of equal popularity come out in reverse upstream order
RECURSIVE SortAscendingThenReverse(_)
SortAscendingThenReverse(tracks) ==
    IF tracks = <<>> THEN <<>>
    ELSE LET n == Len(tracks)
             rest == SortAscendingThenReverse(SubSeq(tracks, 1, n - 1))
             x == tracks[n]
             k == Cardinality({i \in DOMAIN rest : rest[i].popularity > x.popularity})
         IN SubSeq(rest, 1, k) \o <<x>> \o SubSeq(rest, k + 1, Len(rest))

\* tracks.sort(key=lambda x: x.popularity, reverse=True): list.sort is stable,
\* also with reverse=True. Each track goes behind the tracks before it that
\* are at least as popular.
RECURSIVE SortByPopularity(_)
SortByPopularity(tracks) ==
    IF tracks = <<>> THEN <<>>
    ELSE LET n == Len(tracks)
             rest == SortByPopularity(SubSeq(tracks, 1, n - 1))
             x == tracks[n]
             k == Cardinality({i \in DOMAIN rest : rest[i].popularity >= x.popularity})
         IN SubSeq(rest, 1, k) \o <<x>> \o SubSeq(rest, k + 1, Len(rest))

(***************************************************************************)
(* get_spotify_recommendations: the query it sends.                        *)
(***************************************************************************)
MaxSeedGenres == 3
MaxSeedArtists == 2
DefaultLimit == 20
MinPopularity == 30

\* ','.join(strs)
RECURSIVE Join(_)
Join(strs) ==
    IF strs = <<>> THEN <<>>
    ELSE IF Len(strs) = 1 THEN strs[1]
    ELSE strs[1] \o <<",">> \o Join(Tail(strs))

\* seed_genres[:3] taken for an index: two genre seeds are sent, not three
recommendation_params_two_genres(seed_genres, seed_artists, limit) ==
    LET params == [limit |-> limit,
                   seed_genres |-> IF seed_genres # <<>>
                                   THEN Join(Prefix(seed_genres, MaxSeedGenres - 1)) ELSE <<>>,
                   seed_artists |-> IF seed_artists # <<>>
                                    THEN Join(Prefix(seed_artists, MaxSeedArtists)) ELSE <<>>,
                   min_popularity |-> MinPopularity,
                   target_energy |-> "0.7",
                   target_danceability |-> "0.6"]
        kept == {k \in DOMAIN params :
                    CASE k \in {"seed_genres", "seed_artists"} -> params[k] # <<>>
                      [] k \in {"limit", "min_popularity"} -> params[k] # 0
                      [] OTHER -> TRUE}
    IN [k \in kept |-> params[k]]

\* params, after 'Remove empty params'
recommendation_params(seed_genres, seed_artists, limit) ==
    LET params == [limit |-> limit,
                   seed_genres |-> IF seed_genres # <<>>
                                   THEN Join(Prefix(seed_genres, MaxSeedGenres)) ELSE <<>>,
                   seed_artists |-> IF seed_artists # <<>>
                                    THEN Join(Prefix(seed_artists, MaxSeedArtists)) ELSE <<>>,
                   min_popularity |-> MinPopularity,
                   target_energy |-> "0.7",
                   target_danceability |-> "0.6"]
        kept == {k \in DOMAIN params :
                    CASE k \in {"seed_genres", "seed_artists"} -> params[k] # <<>>
                      [] k \in {"limit", "min_popularity"} -> params[k] # 0
                      [] OTHER -> TRUE}
    IN [k \in kept |-> params[k]]

\* how the recommendations endpoint reads a seed parameter: a comma-separated list
RECURSIVE SplitSeeds(_)
SplitSeeds(str) ==
    IF \A i \in DOMAIN str : str[i] # ","
    THEN <<str>>
    ELSE LET c == CHOOSE i \in DOMAIN str :
                    str[i] = "," /\ \A j \in 1..(i - 1) : str[j] # ","
         IN <<SubSeq(str, 1, c - 1)>> \o SplitSeeds(SubSeq(str, c + 1, Len(str)))

\* the seeds a query carries under one parameter
SeedsSent(params, key) == IF key \in DOMAIN params THEN SplitSeeds(params[key]) ELSE <<>>

(***************************************************************************)
(* The handlers that call upstream.  Each awaits the token, then the       *)
(* catalog; one request is followed from its start to its response.        *)
(***************************************************************************)
NoRequest ==
    [endpoint |-> "none", user |-> <<>>, seed_genres |-> <<>>, seed_artists |-> <<>>,
     token_reply |-> <<>>, token |-> <<>>, catalog_reply |-> <<>>, results |-> <<>>]

TokenCall == [url |-> "accounts/api/token", token |-> None, params |-> <<>>]

CatalogCall(url, token, params) == [url |-> url, token |-> token, params |-> params]

\* an exception no handler catches: the framework answers 500
Unhandled(op) == HTTPException(op, 500, "Internal Server Error")

CanStart == pc \in {"idle", "done"}

\* each handler up to its first await: the token fetch is issued, and the
\* request followed has no response yet
StartRequest(endpoint, user) ==
    /\ req' = [NoRequest EXCEPT !.endpoint = endpoint, !.user = user]
    /\ calls' = <<TokenCall>>
    /\ pc' = "token"
    /\ response' = NoResponse

get_available_genres ==
    /\ CanStart
    /\ StartRequest("get_available_genres", <<>>)
    /\ UNCHANGED store_vars

search_tracks ==
    /\ CanStart
    /\ StartRequest("search_tracks", <<>>)
    /\ UNCHANGED store_vars

get_trending_tracks ==
    /\ CanStart
    /\ StartRequest("get_trending_tracks", <<>>)
    /\ UNCHANGED store_vars

get_recommendations(user_id) ==
    /\ CanStart
    /\ LET user == find_one(users, [id |-> user_id]) IN
        IF user = <<>>
        THEN /\ response' = HTTPException("get_recommendations", 404, "User not found")
             /\ req' = [NoRequest EXCEPT !.endpoint = "get_recommendations"]
             /\ calls' = <<>>
             /\ pc' = "done"
        ELSE StartRequest("get_recommendations", user)
    /\ UNCHANGED store_vars

\* 'if not seed_genres or not seed_artists': the default replaces the genres
\* of a user who has genres but no artists
recommendation_seeds_or(user) ==
    LET seed_genres == Prefix(user.favorite_genres, MaxSeedGenres)
        seed_artists == Prefix(user.favorite_artists, MaxSeedArtists)
    IN IF seed_genres = <<>> \/ seed_artists = <<>>
       THEN [seed_genres |-> <<S_pop, S_rock, S_indie>>, seed_artists |-> seed_artists]
       ELSE [seed_genres |-> seed_genres, seed_artists |-> seed_artists]

\* the seeds get_recommendations passes on and echoes
recommendation_seeds(user) ==
    LET seed_genres == Prefix(user.favorite_genres, MaxSeedGenres)
        seed_artists == Prefix(user.favorite_artists, MaxSeedArtists)
    IN IF seed_genres = <<>> /\ seed_artists = <<>>
       THEN [seed_genres |-> <<S_pop, S_rock, S_indie>>, seed_artists |-> seed_artists]
       ELSE [seed_genres |-> seed_genres, seed_artists |-> seed_artists]

\* the catalog call each handler issues once it holds a token
catalog_call(r, token) ==
    CASE r.endpoint = "get_available_genres" ->
            CatalogCall("recommendations/available-genre-seeds", token, <<>>)
      [] r.endpoint = "search_tracks" ->
            CatalogCall("search", token, [q |-> "q", type |-> "track", limit |-> DefaultLimit])
      [] r.endpoint = "get_trending_tracks" ->
            CatalogCall("search", token,
                        [q |-> "year:2024", type |-> "track", limit |-> DefaultLimit])
      [] r.endpoint = "get_recommendations" ->
            CatalogCall("recommendations", token,
                        recommendation_params(r.seed_genres, r.seed_artists, DefaultLimit))

\* each handler from the token's arrival to its second await
token_reply(reply) ==
    /\ pc = "token"
    /\ LET token == get_spotify_token(reply)
           seeds == IF req.endpoint = "get_recommendations"
                    THEN recommendation_seeds(req.user[1])
                    ELSE [seed_genres |-> <<>>, seed_artists |-> <<>>]
           r == [req EXCEPT !.token_reply = <<reply>>, !.token = <<token>>,
                            !.seed_genres = seeds.seed_genres,
                            !.seed_artists = seeds.seed_artists]
       IN
        IF token.raised
        THEN /\ response' = Unhandled(req.endpoint)
             /\ req' = [req EXCEPT !.token_reply = <<reply>>, !.token = <<token>>]
             /\ pc' = "done"
             /\ UNCHANGED calls
        ELSE IF NotToken(token.value)
        THEN /\ response' = HTTPException(req.endpoint, 500, "Failed to get Spotify token")
             /\ req' = [req EXCEPT !.token_reply = <<reply>>, !.token = <<token>>]
             /\ pc' = "done"
             /\ UNCHANGED calls
        ELSE /\ req' = r
             /\ calls' = Append(calls, catalog_call(r, token.value))
             /\ pc' = "catalog"
             /\ UNCHANGED response
    /\ UNCHANGED store_vars

FailureDetail(endpoint) ==
    CASE endpoint = "get_available_genres" -> "Failed to fetch genres"
      [] endpoint = "search_tracks" -> "Search failed"
      [] endpoint = "get_trending_tracks" -> "Failed to get trending tracks"
      [] endpoint = "get_recommendations" -> "Failed to get recommendations"

\* the items a handler reads from the parsed body: results['tracks']['items']
\* for the two searches, recommendations['tracks'] for the recommendations
read_items(endpoint, results) ==
    IF "tracks" \notin DOMAIN results THEN Raises("KeyError", <<>>)
    ELSE IF endpoint = "get_recommendations" THEN Returns(results["tracks"])
    ELSE IF "items" \notin DOMAIN results["tracks"] THEN Raises("KeyError", <<>>)
    ELSE Returns(results["tracks"]["items"])

\* the response a handler builds from the catalog's reply
catalog_response(r, reply) ==
    LET op == r.endpoint
        parsed == catalog_json(reply)
    IN
    IF op = "get_available_genres"
    THEN IF reply.kind = "error" THEN Unhandled(op)
         ELSE IF reply.status_code # 200 THEN HTTPException(op, 500, FailureDetail(op))
         ELSE IF parsed.raised THEN Unhandled(op)
         ELSE Return200(op, parsed.value[1])
    ELSE IF parsed.raised THEN Unhandled(op)
    ELSE IF NotResults(parsed.value) THEN HTTPException(op, 500, FailureDetail(op))
    ELSE LET items == read_items(op, parsed.value[1])
             tracks == IF items.raised THEN items ELSE format_tracks(items.value)
         IN IF tracks.raised THEN Unhandled(op)
            ELSE IF op = "search_tracks" THEN Return200(op, [tracks |-> tracks.value])
            ELSE IF op = "get_trending_tracks"
            THEN Return200(op, [trending_tracks |-> SortByPopularity(tracks.value)])
            ELSE Return200(op, [recommendations |-> tracks.value,
                                seed_genres |-> r.seed_genres,
                                seed_artists |-> r.seed_artists])

\* each handler from the catalog's reply to its response
catalog_reply(reply) ==
    /\ pc = "catalog"
    /\ LET parsed == catalog_json(reply) IN
        req' = [req EXCEPT !.catalog_reply = <<reply>>,
                           !.results = IF parsed.raised THEN <<>> ELSE parsed.value]
    /\ response' = catalog_response(req, reply)
    /\ pc' = "done"
    /\ UNCHANGED <<calls, store_vars>>

(***************************************************************************)
(* The store with requests interleaved at their awaits.                    *)
(***************************************************************************)
Init ==
    /\ users = <<>>
    /\ saved_tracks = <<>>
    /\ pending = {}
    /\ response = NoResponse
    /\ pc = "idle"
    /\ req = NoRequest
    /\ calls = <<>>

Next ==
    \/ \E d \in UserPayloads : create_user(d)
    \/ \E u \in UserIdArgs : get_user(u)
    \/ \E u \in UserIdArgs, p \in PrefPayloads : update_user_preferences(u, p)
    \/ \E u \in SaveUserArgs, d \in TrackPayloads : save_track_find(u, d)
    \/ \E s \in pending : save_track_insert(s)
    \/ \E u \in SaveUserArgs : get_saved_tracks(u)
    \/ \E u \in SaveUserArgs, t \in TrackIdArgs : remove_saved_track(u, t)

Spec == Init /\ [][Next]_vars

(***************************************************************************)
(* The store with every request run to its end before the next starts.     *)
(***************************************************************************)
NextSeq ==
    \/ \E d \in UserPayloads : create_user(d)
    \/ \E u \in UserIdArgs : get_user(u)
    \/ \E u \in UserIdArgs, p \in PrefPayloads : update_user_preferences(u, p)
    \/ \E u \in SaveUserArgs, d \in TrackPayloads : save_track(u, d)
    \/ \E u \in SaveUserArgs : get_saved_tracks(u)
    \/ \E u \in SaveUserArgs, t \in TrackIdArgs : remove_saved_track(u, t)

SpecSeq == Init /\ [][NextSeq]_vars

(***************************************************************************)
(* What upstream may answer.                                               *)
(***************************************************************************)
TokenBodies ==
    { NotJson,
      Json([access_token |-> "BQtoken"]),
      Json([access_token |-> ""]),
      Json([error |-> "invalid_client"]) }

TokenReplies == {TransportError} \cup {Http(st, b) : st \in {200, 401}, b \in TokenBodies}

RawTrack(id, popularity) ==
    [id |-> id, name |-> id, artists |-> <<[name |-> "x"]>>,
     album |-> [name |-> "lp", images |-> <<>>],
     external_urls |-> [spotify |-> "url"], duration_ms |-> 1, popularity |-> popularity]

Raw_A == RawTrack("A", 50)
Raw_B == RawTrack("B", 90)
Raw_D == RawTrack("D", 10)

\* as popular as B, with a preview and two cover images
Raw_C ==
    [id |-> "C", name |-> "C", artists |-> <<[name |-> "x"], [name |-> "y"]>>,
     album |-> [name |-> "lp", images |-> <<[url |-> "big"], [url |-> "small"]>>],
     external_urls |-> [spotify |-> "url"], duration_ms |-> 1, popularity |-> 90,
     preview_url |-> "mp3"]

\* upstream left the popularity out
Raw_E ==
    [id |-> "E", name |-> "E", artists |-> <<[name |-> "x"]>>,
     album |-> [name |-> "lp", images |-> <<>>],
     external_urls |-> [spotify |-> "url"], duration_ms |-> 1]

\* upstream left the name out
Raw_F ==
    [id |-> "F", artists |-> <<[name |-> "x"]>>,
     album |-> [name |-> "lp", images |-> <<>>],
     external_urls |-> [spotify |-> "url"], duration_ms |-> 1, popularity |-> 50]

RawTracks == {Raw_A, Raw_B, Raw_C, Raw_D, Raw_E, Raw_F}

ItemLists == Seqs(RawTracks, MaxItems)

CatalogBodies(endpoint) ==
    CASE endpoint = "get_available_genres" ->
            {NotJson, Json([genres |-> <<S_pop, S_rock>>])}
      [] endpoint = "get_recommendations" ->
            {NotJson, Json(<<>>), Json([error |-> "x"])}
                \cup {Json([tracks |-> items]) : items \in ItemLists}
      [] OTHER ->
            {NotJson, Json(<<>>), Json([error |-> "x"]), Json([tracks |-> [total |-> 0]])}
                \cup {Json([tracks |-> [items |-> items]]) : items \in ItemLists}

CatalogReplies(endpoint) ==
    {TransportError, Http(401, Json([error |-> "x"]))}
        \cup {Http(200, b) : b \in CatalogBodies(endpoint)}

\* a few answers to a recommendations query
SomeRecommendationReplies ==
    {TransportError, Http(401, Json([error |-> "x"])),
     Http(200, Json([tracks |-> <<Raw_B, Raw_E>>]))}

StoredUser(genres, artists) ==
    [User(1, CHOOSE d \in UserPayloads : TRUE, utcnow)
        EXCEPT !.favorite_genres = genres, !.favorite_artists = artists]

(***************************************************************************)
(* The upstream handlers, with a user stored who has set preferences or    *)
(* has not.                                                                *)
(***************************************************************************)
InitUp ==
    /\ \E p \in PrefPayloads \cup {[genres |-> <<>>, artists |-> <<>>]} :
            users = <<StoredUser(p.genres, p.artists)>>
    /\ saved_tracks = <<>>
    /\ pending = {}
    /\ response = NoResponse
    /\ pc = "idle"
    /\ req = NoRequest
    /\ calls = <<>>

NextUp ==
    \/ get_available_genres
    \/ search_tracks
    \/ get_trending_tracks
    \/ \E u \in UserIdArgs : get_recommendations(u)
    \/ pc = "token" /\ \E reply \in TokenReplies : token_reply(reply)
    \/ pc = "catalog" /\ \E reply \in CatalogReplies(req.endpoint) : catalog_reply(reply)

SpecUp == InitUp /\ [][NextUp]_vars

(***************************************************************************)
(* The recommendations handler over the preferences a user can have stored *)
(* (update_user_preferences stores any two lists of strings).              *)
(***************************************************************************)
\* one of them a single entry that holds a comma
GenreStrings == {S_pop, S_rock, <<"r", ",", "b">>}

ArtistStrings == {S_a1, S_a2}

InitRec ==
    /\ \E g \in Seqs(GenreStrings, MaxGenres), a \in Seqs(ArtistStrings, MaxArtists) :
            users = <<StoredUser(g, a)>>
    /\ saved_tracks = <<>>
    /\ pending = {}
    /\ response = NoResponse
    /\ pc = "idle"
    /\ req = NoRequest
    /\ calls = <<>>

NextRec ==
    \/ \E u \in UserIdArgs : get_recommendations(u)
    \/ pc = "token" /\ \E reply \in TokenReplies : token_reply(reply)
    \/ pc = "catalog" /\ \E reply \in SomeRecommendationReplies : catalog_reply(reply)

SpecRec == InitRec /\ [][NextRec]_vars

(***************************************************************************)
(* Properties of the store.                                                *)
(***************************************************************************)
PairCount(coll, user_id, track_id) == Cardinality(PairRows(coll, user_id, track_id))

\* the rows of the pairs other than (user_id, track_id), in order
OtherRows(coll, user_id, track_id) ==
    Select(coll, DOMAIN coll \ PairRows(coll, user_id, track_id))

\* C1: in every reachable state at most one SavedTrack row exists for any
\* (user id, track id) pair, whatever the interleaving of save_track and
\* remove_saved_track requests.
C1_UniquePair ==
    \A u \in SaveUserArgs, t \in TrackIdArgs : PairCount(saved_tracks, u, t) <= 1

\* C2: with requests run one after the other, save_track of a pair that has no
\* row answers success and inserts exactly one row, and save_track of a pair
\* that has a row (the same call made again) answers 400 'Track already saved'
\* and inserts nothing; either way exactly one row of the pair exists afterward.
C2_SecondSaveConflicts ==
    [][\A u \in SaveUserArgs, d \in TrackPayloads :
        (response'.op = "save_track" /\ save_track(u, d)) =>
            /\ PairCount(saved_tracks', u, d.track_id) = 1
            /\ IF PairCount(saved_tracks, u, d.track_id) = 0
               THEN /\ response' = Ok("save_track", "Track saved successfully")
                    /\ Len(saved_tracks') = Len(saved_tracks) + 1
                    /\ SubSeq(saved_tracks', 1, Len(saved_tracks)) = saved_tracks
               ELSE /\ response' = HTTPException("save_track", 400, "Track already saved")
                    /\ saved_tracks' = saved_tracks]_vars

\* a second save of a stored pair has just been rejected
C2_Witness ==
    /\ response = HTTPException("save_track", 400, "Track already saved")
    /\ \E u \in SaveUserArgs, t \in TrackIdArgs : PairCount(saved_tracks, u, t) = 1

\* C7: update_user_preferences with a user id that matches no stored User
\* answers 404 and leaves the user collection as it was.
C7_UpdateUnknownUser ==
    [][\A u \in UserIdArgs, p \in PrefPayloads :
        (u \notin UserIds(users) /\ update_user_preferences(u, p)) =>
            /\ response' = HTTPException("update_user_preferences", 404, "User not found")
            /\ users' = users]_vars

\* an update naming an unknown user id has just been refused
C7_Witness ==
    /\ response = HTTPException("update_user_preferences", 404, "User not found")
    /\ Len(users) < MaxUsers

Identity(user) ==
    <<user.id, user.spotify_id, user.display_name, user.email, user.created_at>>

\* the step is a preference update (every handler names itself in its response)
IsUpdate(u, p) ==
    response'.op = "update_user_preferences" /\ update_user_preferences(u, p)

\* C9: every step keeps every User with its id, spotify_id, display_name, email
\* and created_at; a step that is no preference update keeps every User whole;
\* a preference update makes the named User's favorite_genres and
\* favorite_artists the submitted lists and keeps every other User whole.
C9_UserFrame ==
    [][/\ \A i \in DOMAIN users :
            /\ i \in DOMAIN users'
            /\ Identity(users'[i]) = Identity(users[i])
       /\ \/ \A i \in DOMAIN users : users'[i] = users[i]
          \/ \E u \in UserIdArgs, p \in PrefPayloads : IsUpdate(u, p)
       /\ \A u \in UserIdArgs, p \in PrefPayloads :
            IsUpdate(u, p) =>
                \A i \in DOMAIN users :
                    users'[i] =
                        IF users[i].id = u
                        THEN [users[i] EXCEPT !.favorite_genres = p.genres,
                                              !.favorite_artists = p.artists]
                        ELSE users[i]]_vars

\* a user's preferences were overwritten by a shorter list while another user
\* and a saved track are stored
C9_Witness ==
    /\ response = Ok("update_user_preferences", "Preferences updated successfully")
    /\ Len(users) = 2
    /\ Len(saved_tracks) > 0
    /\ \E i \in DOMAIN users :
        /\ users[i].favorite_genres = <<S_pop>>
        /\ users[i].favorite_artists = <<>>
    /\ \E i \in DOMAIN users : users[i].favorite_genres = <<S_rock, S_pop>>

\* C10: whenever remove_saved_track answers success, no row of the pair is left
\* and the rows of every other pair are as they were.
C10_RemoveLeavesNoRow ==
    [][\A u \in SaveUserArgs, t \in TrackIdArgs :
        (remove_saved_track(u, t) /\ response'.status = 200) =>
            /\ PairCount(saved_tracks', u, t) = 0
            /\ OtherRows(saved_tracks', u, t) = OtherRows(saved_tracks, u, t)]_vars

(***************************************************************************)
(* Properties of the upstream handlers.                                    *)
(***************************************************************************)
\* the token fetch failed: a transport error, a status other than 200, or a
\* 200 whose body is malformed or lacks access_token
TokenFetchFailed(reply) ==
    \/ reply.kind = "error"
    \/ reply.status_code # 200
    \/ ~reply.body.json
    \/ "access_token" \notin DOMAIN reply.body.value

\* C3: in each failure case of the token fetch get_spotify_token returns None,
\* and nothing else escapes to its caller.
C3_TokenFailureYieldsNone ==
    (req.token_reply # <<>> /\ TokenFetchFailed(req.token_reply[1])) =>
        req.token[1] = Returns(None)

IsRecommendationCall == Len(calls) = 2 /\ req.endpoint = "get_recommendations"

\* C4: the seeds a recommendations query carries are the first min(3, n) genres
\* and the first min(2, m) artists of the sequences passed, in order, and never
\* more than 5 in total; so it is for the user's stored lists passed whole.
C4_SeedsForwarded ==
    IsRecommendationCall =>
        /\ SeedsSent(calls[2].params, "seed_genres") = Prefix(req.seed_genres, 3)
        /\ SeedsSent(calls[2].params, "seed_artists") = Prefix(req.seed_artists, 2)
        /\ Len(SeedsSent(calls[2].params, "seed_genres"))
            + Len(SeedsSent(calls[2].params, "seed_artists")) <= 5
        /\ LET user == req.user[1]
               whole == recommendation_params(user.favorite_genres, user.favorite_artists,
                                              DefaultLimit)
           IN /\ SeedsSent(whole, "seed_genres") = Prefix(user.favorite_genres, 3)
              /\ SeedsSent(whole, "seed_artists") = Prefix(user.favorite_artists, 2)

\* C5: the seeds the recommendations handler passes on and echoes are pop, rock,
\* indie with no artist when the stored user has no genre and no artist, and
\* otherwise the user's first 3 genres and first 2 artists with nothing added.
C5_DefaultSeeds ==
    IsRecommendationCall =>
        LET user == req.user[1]
            expected ==
                IF user.favorite_genres = <<>> /\ user.favorite_artists = <<>>
                THEN [seed_genres |-> <<S_pop, S_rock, S_indie>>, seed_artists |-> <<>>]
                ELSE [seed_genres |-> Prefix(user.favorite_genres, 3),
                      seed_artists |-> Prefix(user.favorite_artists, 2)]
        IN /\ req.seed_genres = expected.seed_genres
           /\ req.seed_artists = expected.seed_artists
           /\ (pc = "done" /\ response.status = 200) =>
                /\ response.body.seed_genres = expected.seed_genres
                /\ response.body.seed_artists = expected.seed_artists

\* a user with no genre and no artist was answered with the default seeds
C5_Witness ==
    /\ IsRecommendationCall
    /\ pc = "done"
    /\ response.status = 200
    /\ req.user[1].favorite_genres = <<>>
    /\ req.user[1].favorite_artists = <<>>
    /\ response.body.seed_genres = <<S_pop, S_rock, S_indie>>
    /\ response.body.seed_artists = <<>>

TrendingAnswered ==
    /\ pc = "done"
    /\ req.endpoint = "get_trending_tracks"
    /\ response.status = 200

\* C6: the trending result is a permutation of the formatted upstream tracks in
\* non-increasing popularity, tracks of equal popularity in upstream order.
C6_TrendingStableSort ==
    TrendingAnswered =>
        LET items == req.results[1]["tracks"]["items"]
            given == [i \in DOMAIN items |-> format_track(items[i]).value]
            out == response.body.trending_tracks
        IN /\ Len(out) = Len(given)
           /\ \E f \in Permutations(DOMAIN given) :
                /\ \A k \in DOMAIN out : out[k] = given[f[k]]
                /\ \A k, l \in DOMAIN out :
                    k < l => \/ out[k].popularity > out[l].popularity
                             \/ /\ out[k].popularity = out[l].popularity
                                /\ f[k] < f[l]

\* upstream order (A,50),(B,90),(C,90),(D,10) came out as B, C, A, D
C6_Witness ==
    /\ TrendingAnswered
    /\ req.results[1]["tracks"]["items"] = <<Raw_A, Raw_B, Raw_C, Raw_D>>
    /\ [i \in 1..4 |-> response.body.trending_tracks[i].id] = <<"B", "C", "A", "D">>

\* the catalog call failed: a transport error or a status other than 200
CatalogCallFailed(reply) == reply.kind = "error" \/ reply.status_code # 200

IsCatalogCall(call) == call.url # TokenCall.url

TrackEndpoints == {"search_tracks", "get_trending_tracks", "get_recommendations"}

\* the track list a 200 response carries
TracksOf(resp) ==
    CASE resp.op = "search_tracks" -> resp.body.tracks
      [] resp.op = "get_trending_tracks" -> resp.body.trending_tracks
      [] resp.op = "get_recommendations" -> resp.body.recommendations

\* C8: a catalog call is the second call of its request, after a token fetch
\* that returned a non-empty token, and carries that token; when the token
\* fetch fails the request ends in a server error with no catalog call; when
\* the catalog call fails the request ends in a server error without tracks;
\* a track list that is returned holds every upstream item.
C8_TokenBeforeCatalog ==
    /\ \A i \in DOMAIN calls :
        IsCatalogCall(calls[i]) =>
            /\ i = 2
            /\ calls[1] = TokenCall
            /\ req.token_reply # <<>>
            /\ ~TokenFetchFailed(req.token_reply[1])
            /\ ~req.token[1].raised
            /\ req.token[1].value \notin {None, ""}
            /\ calls[i].token = req.token[1].value
            /\ calls[i].token = req.token_reply[1].body.value["access_token"]
    /\ (pc = "done" /\ req.token_reply # <<>> /\ TokenFetchFailed(req.token_reply[1])) =>
            /\ response.op = req.endpoint
            /\ response.status = 500
            /\ \A i \in DOMAIN calls : ~IsCatalogCall(calls[i])
    /\ (pc = "done" /\ req.catalog_reply # <<>> /\ CatalogCallFailed(req.catalog_reply[1])) =>
            /\ response.op = req.endpoint
            /\ response.status = 500
            /\ response.body = <<>>
    /\ (pc = "done" /\ response.status = 200 /\ req.endpoint \in TrackEndpoints) =>
            /\ response.op = req.endpoint
            /\ req.catalog_reply # <<>>
            /\ ~CatalogCallFailed(req.catalog_reply[1])
            /\ Len(TracksOf(response))
                = Len(read_items(req.endpoint, req.results[1]).value)

\* a search ended in a server error after its token arrived and its catalog
\* call failed
C8_Witness ==
    /\ pc = "done"
    /\ req.endpoint = "search_tracks"
    /\ Len(calls) = 2
    /\ req.token[1] = Returns("BQtoken")
    /\ CatalogCallFailed(req.catalog_reply[1])
    /\ response.status = 500

====
